---- MODULE Spec2Model ----
(***************************************************************************)
(* Model of the terminal mouse-report decoder of mouse.go: the button      *)
(* codec (parseMouseButton), the X10 and SGR decoders, the dispatcher      *)
(* (parseMouseEvents), driven by buffers built from the tests' encode      *)
(* helpers, the two markers and raw bytes.                                 *)
(*                                                                         *)
(* A buffer is a sequence of bytes (0..255).  A Go (events, error) result  *)
(* is a record [ev, err]; err = "" is the nil error, ev = << >> the nil    *)
(* or empty slice.  str is the text MouseEvent.String returned.           *)
(***************************************************************************)
EXTENDS Integers, Sequences, FiniteSets, TLC

VARIABLES buf, args, npieces, pc, fn, ev, err, str

vars == <<buf, args, npieces, pc, fn, ev, err, str>>

(***************************************************************************)
(* Bytes of the wire formats.                                              *)
(***************************************************************************)
ESC == 27
LBracket == 91
UpperM == 77
LowerM == 109
LessThan == 60
Semicolon == 59
DigitZero == 48

ByteModulus == 256

mouseX10ByteOffset == 32

\* MouseAction (iota)
MouseActionPress == 0
MouseActionRelease == 1
MouseActionMotion == 2

\* MouseButton (iota)
MouseButtonNone == 0
MouseButtonLeft == 1
MouseButtonMiddle == 2
MouseButtonRight == 3
MouseButtonWheelUp == 4
MouseButtonWheelDown == 5
MouseButtonWheelLeft == 6
MouseButtonWheelRight == 7
MouseButtonBackward == 8
MouseButtonForward == 9
MouseButton10 == 10
MouseButton11 == 11
MouseButtonUnknown == 12

\* MouseEventType (iota)
MouseUnknown == 0
MouseLeft == 1
MouseRight == 2
MouseMiddle == 3
MouseRelease == 4
MouseWheelUp == 5
MouseWheelDown == 6
MouseWheelLeft == 7
MouseWheelRight == 8
MouseBackward == 9
MouseForward == 10
MouseMotion == 11

mouseX10Seq == <<ESC, LBracket, UpperM>>
mouseSGRSeq == <<ESC, LBracket, LessThan>>

\* bit constants of parseMouseButton
bitShift == 4
bitAlt == 8
bitCtrl == 16
bitMotion == 32
bitWheel == 64
bitAdd == 128
\* a plausible slip: a mask of three bits, 0b0000_0111
bitsMaskWide == 4 + 2 + 1

bitsMask == 3

(***************************************************************************)
(* Go's e & mask on a two's-complement int e and a non-negative mask.      *)
(* \div floors and % is non-negative, which is two's complement on the     *)
(* low bits of a negative e.                                               *)
(***************************************************************************)
RECURSIVE BitAnd(_, _)
BitAnd(e, mask) ==
    IF mask = 0 THEN 0
    ELSE (e % 2) * (mask % 2) + 2 * BitAnd(e \div 2, mask \div 2)

\* the zero value of MouseEvent (var m MouseEvent)
ZeroEvent ==
    [X |-> 0, Y |-> 0, Shift |-> FALSE, Alt |-> FALSE, Ctrl |-> FALSE,
     Action |-> MouseActionPress, Button |-> MouseButtonNone,
     Type |-> MouseUnknown, isSGR |-> FALSE]

IsWheel(m) ==
    \/ m.Button = MouseButtonWheelUp
    \/ m.Button = MouseButtonWheelDown
    \/ m.Button = MouseButtonWheelLeft
    \/ m.Button = MouseButtonWheelRight

(***************************************************************************)
(* The label tables and MouseEvent.String.  Indexing a Go map with a key   *)
(* it does not hold gives the zero value, the empty string.                *)
(***************************************************************************)
mouseActions ==
    (MouseActionPress :> "press") @@ (MouseActionRelease :> "release")
        @@ (MouseActionMotion :> "motion")

mouseButtons ==
    (MouseButtonNone :> "none") @@ (MouseButtonLeft :> "left")
        @@ (MouseButtonMiddle :> "middle") @@ (MouseButtonRight :> "right")
        @@ (MouseButtonWheelUp :> "wheel up") @@ (MouseButtonWheelDown :> "wheel down")
        @@ (MouseButtonWheelLeft :> "wheel left")
        @@ (MouseButtonWheelRight :> "wheel right")
        @@ (MouseButtonBackward :> "backward") @@ (MouseButtonForward :> "forward")
        @@ (MouseButton10 :> "button 10") @@ (MouseButton11 :> "button 11")
        @@ (MouseButtonUnknown :> "unknown")

mouseEventTypes ==
    (MouseUnknown :> "unknown") @@ (MouseLeft :> "left") @@ (MouseRight :> "right")
        @@ (MouseMiddle :> "middle") @@ (MouseRelease :> "release")
        @@ (MouseWheelUp :> "wheel up") @@ (MouseWheelDown :> "wheel down")
        @@ (MouseWheelLeft :> "wheel left") @@ (MouseWheelRight :> "wheel right")
        @@ (MouseBackward :> "backward") @@ (MouseForward :> "forward")
        @@ (MouseMotion :> "motion")

MapIndex(map, key) == IF key \in DOMAIN map THEN map[key] ELSE ""

\* a plausible slip: "shift+" written before "alt+"
StringShiftBeforeAlt(m) ==
    LET s1 == IF m.Ctrl THEN "ctrl+" ELSE ""
        s2 == IF m.Shift THEN s1 \o "shift+" ELSE s1
        s3 == IF m.Alt THEN s2 \o "alt+" ELSE s2
    IN  IF m.isSGR
        THEN IF m.Button = MouseButtonNone /\ m.Action = MouseActionMotion
             THEN s3 \o MapIndex(mouseActions, m.Action)
             ELSE IF IsWheel(m)
             THEN s3 \o MapIndex(mouseButtons, m.Button)
             ELSE s3 \o MapIndex(mouseButtons, m.Button) \o " "
                     \o MapIndex(mouseActions, m.Action)
        ELSE s3 \o MapIndex(mouseEventTypes, m.Type)

String(m) ==
    LET s1 == IF m.Ctrl THEN "ctrl+" ELSE ""
        s2 == IF m.Alt THEN s1 \o "alt+" ELSE s1
        s3 == IF m.Shift THEN s2 \o "shift+" ELSE s2
    IN  IF m.isSGR
        THEN IF m.Button = MouseButtonNone /\ m.Action = MouseActionMotion
             THEN s3 \o MapIndex(mouseActions, m.Action)
             ELSE IF IsWheel(m)
             THEN s3 \o MapIndex(mouseButtons, m.Button)
             ELSE s3 \o MapIndex(mouseButtons, m.Button) \o " "
                     \o MapIndex(mouseActions, m.Action)
        ELSE s3 \o MapIndex(mouseEventTypes, m.Type)

\* a plausible slip: the wheel bit tested before the extra-button bit
ButtonActionWheelFirst(e) ==
    LET m0 == ZeroEvent
        m1 == IF BitAnd(e, bitWheel) # 0
              THEN [m0 EXCEPT !.Button = MouseButtonWheelUp + BitAnd(e, bitsMask)]
              ELSE IF BitAnd(e, bitAdd) # 0
              THEN [m0 EXCEPT !.Button = MouseButtonBackward + BitAnd(e, bitsMask)]
              ELSE IF BitAnd(e, bitsMask) = bitsMask
              THEN [m0 EXCEPT !.Action = MouseActionRelease,
                              !.Button = MouseButtonNone]
              ELSE [m0 EXCEPT !.Button = MouseButtonLeft + BitAnd(e, bitsMask)]
    IN  IF BitAnd(e, bitMotion) # 0 /\ ~IsWheel(m1)
        THEN [m1 EXCEPT !.Action = MouseActionMotion]
        ELSE m1

\* a plausible slip: the motion bit applied to wheel events too
ButtonActionMotionOnWheel(e) ==
    LET m0 == ZeroEvent
        m1 == IF BitAnd(e, bitAdd) # 0
              THEN [m0 EXCEPT !.Button = MouseButtonBackward + BitAnd(e, bitsMask)]
              ELSE IF BitAnd(e, bitWheel) # 0
              THEN [m0 EXCEPT !.Button = MouseButtonWheelUp + BitAnd(e, bitsMask)]
              ELSE IF BitAnd(e, bitsMask) = bitsMask
              THEN [m0 EXCEPT !.Action = MouseActionRelease,
                              !.Button = MouseButtonNone]
              ELSE [m0 EXCEPT !.Button = MouseButtonLeft + BitAnd(e, bitsMask)]
    IN  IF BitAnd(e, bitMotion) # 0
        THEN [m1 EXCEPT !.Action = MouseActionMotion]
        ELSE m1

(***************************************************************************)
(* parseMouseButton, first part: Button and Action from the bits of e.     *)
(***************************************************************************)
ButtonAction(e) ==
    LET m0 == ZeroEvent
        m1 == IF BitAnd(e, bitAdd) # 0
              THEN [m0 EXCEPT !.Button = MouseButtonBackward + BitAnd(e, bitsMask)]
              ELSE IF BitAnd(e, bitWheel) # 0
              THEN [m0 EXCEPT !.Button = MouseButtonWheelUp + BitAnd(e, bitsMask)]
              ELSE IF BitAnd(e, bitsMask) = bitsMask
              THEN [m0 EXCEPT !.Action = MouseActionRelease,
                              !.Button = MouseButtonNone]
              ELSE [m0 EXCEPT !.Button = MouseButtonLeft + BitAnd(e, bitsMask)]
    IN  IF BitAnd(e, bitMotion) # 0 /\ ~IsWheel(m1)
        THEN [m1 EXCEPT !.Action = MouseActionMotion]
        ELSE m1

\* a plausible slip: Middle and Right press exchanged, as in the order of the
\* MouseEventType enumeration (Left, Right, Middle)
compatTypeSwapped(m) ==
    IF m.Button = MouseButtonLeft /\ m.Action = MouseActionPress THEN MouseLeft
    ELSE IF m.Button = MouseButtonMiddle /\ m.Action = MouseActionPress THEN MouseRight
    ELSE IF m.Button = MouseButtonRight /\ m.Action = MouseActionPress THEN MouseMiddle
    ELSE IF m.Button = MouseButtonNone /\ m.Action = MouseActionRelease THEN MouseRelease
    ELSE IF m.Button = MouseButtonWheelUp /\ m.Action = MouseActionPress THEN MouseWheelUp
    ELSE IF m.Button = MouseButtonWheelDown /\ m.Action = MouseActionPress THEN MouseWheelDown
    ELSE IF m.Button = MouseButtonWheelLeft /\ m.Action = MouseActionPress THEN MouseWheelLeft
    ELSE IF m.Button = MouseButtonWheelRight /\ m.Action = MouseActionPress THEN MouseWheelRight
    ELSE IF m.Button = MouseButtonBackward /\ m.Action = MouseActionPress THEN MouseBackward
    ELSE IF m.Button = MouseButtonForward /\ m.Action = MouseActionPress THEN MouseForward
    ELSE IF m.Action = MouseActionMotion
    THEN IF m.Button = MouseButtonLeft THEN MouseLeft
         ELSE IF m.Button = MouseButtonMiddle THEN MouseMiddle
         ELSE IF m.Button = MouseButtonRight THEN MouseRight
         ELSE IF m.Button = MouseButtonBackward THEN MouseBackward
         ELSE IF m.Button = MouseButtonForward THEN MouseForward
         ELSE MouseMotion
    ELSE MouseUnknown

(***************************************************************************)
(* parseMouseButton, the "backward compatibility" switch: the legacy Type  *)
(* of an event, first matching case.                                       *)
(***************************************************************************)
compatType(m) ==
    IF m.Button = MouseButtonLeft /\ m.Action = MouseActionPress THEN MouseLeft
    ELSE IF m.Button = MouseButtonMiddle /\ m.Action = MouseActionPress THEN MouseMiddle
    ELSE IF m.Button = MouseButtonRight /\ m.Action = MouseActionPress THEN MouseRight
    ELSE IF m.Button = MouseButtonNone /\ m.Action = MouseActionRelease THEN MouseRelease
    ELSE IF m.Button = MouseButtonWheelUp /\ m.Action = MouseActionPress THEN MouseWheelUp
    ELSE IF m.Button = MouseButtonWheelDown /\ m.Action = MouseActionPress THEN MouseWheelDown
    ELSE IF m.Button = MouseButtonWheelLeft /\ m.Action = MouseActionPress THEN MouseWheelLeft
    ELSE IF m.Button = MouseButtonWheelRight /\ m.Action = MouseActionPress THEN MouseWheelRight
    ELSE IF m.Button = MouseButtonBackward /\ m.Action = MouseActionPress THEN MouseBackward
    ELSE IF m.Button = MouseButtonForward /\ m.Action = MouseActionPress THEN MouseForward
    ELSE IF m.Action = MouseActionMotion
    THEN IF m.Button = MouseButtonLeft THEN MouseLeft
         ELSE IF m.Button = MouseButtonMiddle THEN MouseMiddle
         ELSE IF m.Button = MouseButtonRight THEN MouseRight
         ELSE IF m.Button = MouseButtonBackward THEN MouseBackward
         ELSE IF m.Button = MouseButtonForward THEN MouseForward
         ELSE MouseMotion
    ELSE MouseUnknown

\* a plausible slip: m.isSGR = isSGR left out
parseMouseButtonNoFlag(b, isSGR) ==
    LET e  == IF ~isSGR THEN b - mouseX10ByteOffset ELSE b
        m1 == ButtonAction(e)
    IN  [m1 EXCEPT !.Type = compatType(m1),
                   !.Alt = BitAnd(e, bitAlt) # 0,
                   !.Ctrl = BitAnd(e, bitCtrl) # 0,
                   !.Shift = BitAnd(e, bitShift) # 0]

\* a plausible slip: the Alt and Ctrl bits exchanged
parseMouseButtonAltCtrl(b, isSGR) ==
    LET e  == IF ~isSGR THEN b - mouseX10ByteOffset ELSE b
        m1 == ButtonAction(e)
    IN  [m1 EXCEPT !.isSGR = isSGR,
                   !.Type = compatType(m1),
                   !.Alt = BitAnd(e, bitCtrl) # 0,
                   !.Ctrl = BitAnd(e, bitAlt) # 0,
                   !.Shift = BitAnd(e, bitShift) # 0]

parseMouseButton(b, isSGR) ==
    LET e  == IF ~isSGR THEN b - mouseX10ByteOffset ELSE b
        m1 == ButtonAction(e)
    IN  [m1 EXCEPT !.isSGR = isSGR,
                   !.Type = compatType(m1),
                   !.Alt = BitAnd(e, bitAlt) # 0,
                   !.Ctrl = BitAnd(e, bitCtrl) # 0,
                   !.Shift = BitAnd(e, bitShift) # 0]

(***************************************************************************)
(* bytes.Contains / bytes.Split / strings.Split: leftmost, non-overlapping *)
(* occurrences of sep; n occurrences give n+1 fragments.                   *)
(***************************************************************************)
HasPrefixAt(s, i, sep) ==
    /\ i + Len(sep) - 1 <= Len(s)
    /\ \A k \in 1..Len(sep) : s[i + k - 1] = sep[k]

Contains(s, sep) == \E i \in 1..Len(s) : HasPrefixAt(s, i, sep)

\* index of the first occurrence of sep in s, 0 when there is none
Index(s, sep) ==
    IF Contains(s, sep)
    THEN CHOOSE i \in 1..Len(s) :
            /\ HasPrefixAt(s, i, sep)
            /\ \A j \in 1..(i - 1) : ~HasPrefixAt(s, j, sep)
    ELSE 0

RECURSIVE Split(_, _)
Split(s, sep) ==
    LET i == Index(s, sep)
    IN  IF i = 0 THEN <<s>>
        ELSE <<SubSeq(s, 1, i - 1)>> \o Split(SubSeq(s, i + Len(sep), Len(s)), sep)

(***************************************************************************)
(* The X10 decoder.                                                        *)
(***************************************************************************)
\* a plausible slip: the coordinate byte read as a signed 8-bit value
X10CoordSigned(c) ==
    (IF c >= 128 THEN c - ByteModulus ELSE c) - mouseX10ByteOffset - 1

\* a plausible slip: a negative coordinate clamped to the screen
X10CoordClamped(c) ==
    IF c - mouseX10ByteOffset - 1 < 0 THEN 0 ELSE c - mouseX10ByteOffset - 1

\* int(v[i]) - mouseX10ByteOffset - 1
X10Coord(c) == c - mouseX10ByteOffset - 1

X10Event(v) ==
    [parseMouseButton(v[1], FALSE) EXCEPT !.X = X10Coord(v[2]),
                                          !.Y = X10Coord(v[3])]

\* a plausible slip: each event put in front of the ones before it
RECURSIVE X10LoopPrepend(_, _, _)
X10LoopPrepend(frags, i, r) ==
    IF i > Len(frags) THEN [ev |-> r, err |-> ""]
    ELSE LET v == frags[i]
         IN  IF Len(v) = 0 THEN X10LoopPrepend(frags, i + 1, r)
             ELSE IF Len(v) # 3 THEN [ev |-> r, err |-> "not an X10 mouse event"]
             ELSE X10LoopPrepend(frags, i + 1, <<X10Event(v)>> \o r)

\* the range loop of parseX10MouseEvents over the fragments, from the i-th
\* on, with r the events appended so far
RECURSIVE X10Loop(_, _, _)
X10Loop(frags, i, r) ==
    IF i > Len(frags) THEN [ev |-> r, err |-> ""]
    ELSE LET v == frags[i]
         IN  IF Len(v) = 0 THEN X10Loop(frags, i + 1, r)
             ELSE IF Len(v) # 3 THEN [ev |-> r, err |-> "not an X10 mouse event"]
             ELSE X10Loop(frags, i + 1, Append(r, X10Event(v)))

parseX10MouseEvents(b) ==
    IF ~Contains(b, mouseX10Seq)
    THEN [ev |-> <<>>, err |-> "not an X10 mouse event"]
    ELSE X10Loop(Split(b, mouseX10Seq), 1, <<>>)

(***************************************************************************)
(* mouseSGRRegex = (\d+);(\d+);(\d+)([Mm]) and FindStringSubmatch: the     *)
(* leftmost match anywhere in the fragment (the pattern has no anchors).   *)
(* A \d+ must be followed by a non-digit, so each group is the whole run   *)
(* of digits from its first character.                                     *)
(***************************************************************************)
IsDigit(c) == c >= DigitZero /\ c <= DigitZero + 9

\* the end (exclusive) of the run of digits of s that starts at i
RECURSIVE DigitsEnd(_, _)
DigitsEnd(s, i) ==
    IF i <= Len(s) /\ IsDigit(s[i]) THEN DigitsEnd(s, i + 1) ELSE i

\* the submatches of a match that starts at i, << >> when none does
MatchAt(s, i) ==
    LET e1 == DigitsEnd(s, i)
        e2 == DigitsEnd(s, e1 + 1)
        e3 == DigitsEnd(s, e2 + 1)
    IN  IF /\ e1 > i /\ e1 <= Len(s) /\ s[e1] = Semicolon
           /\ e2 > e1 + 1 /\ e2 <= Len(s) /\ s[e2] = Semicolon
           /\ e3 > e2 + 1 /\ e3 <= Len(s) /\ s[e3] \in {UpperM, LowerM}
        THEN <<SubSeq(s, i, e3), SubSeq(s, i, e1 - 1), SubSeq(s, e1 + 1, e2 - 1),
               SubSeq(s, e2 + 1, e3 - 1), <<s[e3]>> >>
        ELSE <<>>

FindStringSubmatch(s) ==
    IF \E i \in 1..Len(s) : MatchAt(s, i) # <<>>
    THEN MatchAt(s, CHOOSE i \in 1..Len(s) :
                        /\ MatchAt(s, i) # <<>>
                        /\ \A j \in 1..(i - 1) : MatchAt(s, j) = <<>>)
    ELSE <<>>

\* strconv.Atoi on a string of decimal digits (within the int range)
RECURSIVE Atoi(_)
Atoi(s) ==
    IF Len(s) = 0 THEN 0
    ELSE 10 * Atoi(SubSeq(s, 1, Len(s) - 1)) + (s[Len(s)] - DigitZero)

(***************************************************************************)
(* The SGR decoder.                                                        *)
(***************************************************************************)
\* a plausible slip: the terminator overrides wheel events too
SGRReleaseNoWheelCheck(m, release) ==
    IF m.Action # MouseActionMotion /\ release
    THEN [m EXCEPT !.Action = MouseActionRelease, !.Type = MouseRelease]
    ELSE m

\* if m.Action != MouseActionMotion && !m.IsWheel() && release { ... }
SGRRelease(m, release) ==
    IF m.Action # MouseActionMotion /\ ~IsWheel(m) /\ release
    THEN [m EXCEPT !.Action = MouseActionRelease, !.Type = MouseRelease]
    ELSE m

SGREvent(matches) ==
    LET b       == Atoi(matches[2])
        release == matches[5] = <<LowerM>>
        m       == SGRRelease(parseMouseButton(b, TRUE), release)
    IN  [m EXCEPT !.X = Atoi(matches[3]) - 1, !.Y = Atoi(matches[4]) - 1]

\* the range loop of parseSGRMouseEvents
RECURSIVE SGRLoop(_, _, _)
SGRLoop(frags, i, r) ==
    IF i > Len(frags) THEN [ev |-> r, err |-> ""]
    ELSE LET v == frags[i]
         IN  IF Len(v) = 0 THEN SGRLoop(frags, i + 1, r)
             ELSE LET matches == FindStringSubmatch(v)
                  IN  IF Len(matches) # 5
                      THEN [ev |-> <<>>, err |-> "not a SGR mouse event"]
                      ELSE SGRLoop(frags, i + 1, Append(r, SGREvent(matches)))

parseSGRMouseEvents(b) ==
    IF ~Contains(b, mouseSGRSeq)
    THEN [ev |-> <<>>, err |-> "not a SGR mouse event"]
    ELSE SGRLoop(Split(b, mouseSGRSeq), 1, <<>>)

(***************************************************************************)
(* The dispatcher.                                                         *)
(***************************************************************************)
\* a plausible slip: the two cases of the switch in the other order
parseMouseEventsX10First(b) ==
    IF Len(b) = 0 THEN [ev |-> <<>>, err |-> "empty buffer"]
    ELSE IF Contains(b, mouseX10Seq) THEN parseX10MouseEvents(b)
    ELSE IF Contains(b, mouseSGRSeq) THEN parseSGRMouseEvents(b)
    ELSE [ev |-> <<>>, err |-> "not a mouse event"]

parseMouseEvents(b) ==
    IF Len(b) = 0 THEN [ev |-> <<>>, err |-> "empty buffer"]
    ELSE IF Contains(b, mouseSGRSeq) THEN parseSGRMouseEvents(b)
    ELSE IF Contains(b, mouseX10Seq) THEN parseX10MouseEvents(b)
    ELSE [ev |-> <<>>, err |-> "not a mouse event"]

(***************************************************************************)
(* The tests' encode helpers.                                              *)
(***************************************************************************)
\* byte(32) + b, byte(x + 32 + 1), byte(y + 32 + 1): arithmetic modulo 256
encodeX10(b, x, y) ==
    mouseX10Seq \o <<(mouseX10ByteOffset + b) % ByteModulus,
                     (x + mouseX10ByteOffset + 1) % ByteModulus,
                     (y + mouseX10ByteOffset + 1) % ByteModulus>>

\* fmt's %d of a non-negative int
RECURSIVE Itoa(_)
Itoa(n) ==
    IF n < 10 THEN <<DigitZero + n>>
    ELSE Append(Itoa(n \div 10), DigitZero + (n % 10))

\* fmt.Sprintf("\x1b[<%d;%d;%d%c", b, x+1, y+1, re)
encodeSGR(b, x, y, r) ==
    mouseSGRSeq \o Itoa(b) \o <<Semicolon>> \o Itoa(x + 1) \o <<Semicolon>>
        \o Itoa(y + 1) \o <<IF r THEN LowerM ELSE UpperM>>

(***************************************************************************)
(* The state machine: a buffer is put together from pieces (events encoded *)
(* by the tests' helpers, markers, raw bytes) while pc = "input", then     *)
(* handed to one of the three decoding functions, whose result is kept in  *)
(* ev and err (pc = "done").  args records the encode calls that           *)
(* contributed to the buffer, npieces the number of pieces put together.   *)
(***************************************************************************)
Init ==
    /\ buf = <<>>
    /\ args = <<>>
    /\ npieces = 0
    /\ pc = "input"
    /\ fn = ""
    /\ ev = <<>>
    /\ err = ""
    /\ str = ""

EncodeX10(b, x, y) ==
    /\ pc = "input"
    /\ buf' = buf \o encodeX10(b, x, y)
    /\ args' = Append(args, [proto |-> "x10", b |-> b, x |-> x, y |-> y, r |-> FALSE])
    /\ npieces' = npieces + 1
    /\ UNCHANGED <<pc, fn, ev, err, str>>

EncodeSGR(b, x, y, r) ==
    /\ pc = "input"
    /\ buf' = buf \o encodeSGR(b, x, y, r)
    /\ args' = Append(args, [proto |-> "sgr", b |-> b, x |-> x, y |-> y, r |-> r])
    /\ npieces' = npieces + 1
    /\ UNCHANGED <<pc, fn, ev, err, str>>

AppendBytes(s) ==
    /\ pc = "input"
    /\ buf' = buf \o s
    /\ npieces' = npieces + 1
    /\ UNCHANGED <<args, pc, fn, ev, err, str>>

Return(f, res) ==
    /\ pc = "input"
    /\ pc' = "done"
    /\ fn' = f
    /\ ev' = res.ev
    /\ err' = res.err
    /\ UNCHANGED <<buf, args, npieces, str>>

CallParseMouseEvents == Return("parseMouseEvents", parseMouseEvents(buf))

CallParseX10MouseEvents == Return("parseX10MouseEvents", parseX10MouseEvents(buf))

CallParseSGRMouseEvents == Return("parseSGRMouseEvents", parseSGRMouseEvents(buf))

(***************************************************************************)
(* Spec: batched buffers of both protocols.  Each piece is a whole encoded *)
(* event, a marker or a stray byte.                                        *)
(***************************************************************************)
MaxPieces == 3

\* (b, x, y) of the X10 events of a batch; <<251, 58, 44>> encodes a body
\* that is itself ESC [ M
BatchX10 == {<<0, 0, 0>>, <<32, 32, 16>>, <<3, 64, 32>>, <<89, 250, 223>>,
             <<251, 58, 44>>}

\* (b, x, y, r) of the SGR events of a batch
BatchSGR == {<<0, 32, 16, FALSE>>, <<35, 40, 30, FALSE>>, <<0, 64, 32, TRUE>>,
             <<65, 0, 225, TRUE>>, <<131, 9, 9, FALSE>>}

StrayBytes == {ESC, 26}

Next ==
    \/ /\ npieces < MaxPieces
       /\ \E a \in BatchX10 : EncodeX10(a[1], a[2], a[3])
    \/ /\ npieces < MaxPieces
       /\ \E a \in BatchSGR : EncodeSGR(a[1], a[2], a[3], a[4])
    \/ /\ npieces < MaxPieces
       /\ \E s \in {mouseX10Seq, mouseSGRSeq} : AppendBytes(s)
    \/ /\ npieces < MaxPieces
       /\ \E c \in StrayBytes : AppendBytes(<<c>>)
    \/ CallParseMouseEvents
    \/ CallParseX10MouseEvents
    \/ CallParseSGRMouseEvents

Spec == Init /\ [][Next]_vars

(***************************************************************************)
(* SpecX10: X10 buffers byte by byte.  Each piece is the marker or a byte. *)
(***************************************************************************)
MaxX10Pieces == 7

\* ESC, '#' (32 + 3: release), 'a' (32 + 65: wheel down)
X10Bytes == {ESC, 35, 97}

NextX10 ==
    \/ /\ npieces < MaxX10Pieces
       /\ AppendBytes(mouseX10Seq)
    \/ /\ npieces < MaxX10Pieces
       /\ \E c \in X10Bytes : AppendBytes(<<c>>)
    \/ CallParseMouseEvents
    \/ CallParseX10MouseEvents

SpecX10 == Init /\ [][NextX10]_vars

(***************************************************************************)
(* SpecSGR: SGR buffers.  Each piece is the marker, the body of an encoded *)
(* event (the text after the marker) or a byte.                            *)
(***************************************************************************)
MaxSGRPieces == 5

\* (b, x, y, r) of the bodies
BodySGR == {<<0, 0, 0, FALSE>>, <<35, 9, 225, TRUE>>}

\* '1', ';', 'M', 'a'
SGRBytes == {DigitZero + 1, Semicolon, UpperM, 97}

\* the text of an encoded SGR event after its marker
SGRBody(b, x, y, r) ==
    SubSeq(encodeSGR(b, x, y, r), Len(mouseSGRSeq) + 1, Len(encodeSGR(b, x, y, r)))

NextSGR ==
    \/ /\ npieces < MaxSGRPieces
       /\ AppendBytes(mouseSGRSeq)
    \/ /\ npieces < MaxSGRPieces
       /\ \E a \in BodySGR : AppendBytes(SGRBody(a[1], a[2], a[3], a[4]))
    \/ /\ npieces < MaxSGRPieces
       /\ \E c \in SGRBytes : AppendBytes(<<c>>)
    \/ CallParseMouseEvents
    \/ CallParseSGRMouseEvents

SpecSGR == Init /\ [][NextSGR]_vars

(***************************************************************************)
(* SpecEncode: one event, encoded by a test's encode helper over the whole *)
(* domain of button codes, decoded by each function.                       *)
(***************************************************************************)
MaxButtonByte == 255
MaxX10Coord == 255
MaxSGRCode == 255

\* the other coordinate of an X10 event while one sweeps its whole range
X10CoordSamples == {0, 44, 58, 250}

\* the (0-based) coordinates of an SGR event
SGRCoordSamples == {0, 9, 225}

NextEncode ==
    \/ /\ args = <<>>
       /\ \E b \in 0..MaxButtonByte, x \in 0..MaxX10Coord, y \in X10CoordSamples :
             EncodeX10(b, x, y)
    \/ /\ args = <<>>
       /\ \E b \in 0..MaxButtonByte, x \in X10CoordSamples, y \in 0..MaxX10Coord :
             EncodeX10(b, x, y)
    \/ /\ args = <<>>
       /\ \E b \in 0..MaxSGRCode, x \in SGRCoordSamples, y \in SGRCoordSamples,
             r \in BOOLEAN :
             EncodeSGR(b, x, y, r)
    \/ CallParseMouseEvents
    \/ CallParseX10MouseEvents
    \/ CallParseSGRMouseEvents

SpecEncode == Init /\ [][NextEncode]_vars

(***************************************************************************)
(* SpecCodec: one event at the tests' position (32, 16), encoded over the  *)
(* whole domain of button codes, decoded by each function.                 *)
(***************************************************************************)
CodecPosition == <<32, 16>>

NextCodec ==
    \/ /\ args = <<>>
       /\ \E b \in 0..MaxButtonByte :
             EncodeX10(b, CodecPosition[1], CodecPosition[2])
    \/ /\ args = <<>>
       /\ \E b \in 0..MaxSGRCode, r \in BOOLEAN :
             EncodeSGR(b, CodecPosition[1], CodecPosition[2], r)
    \/ CallParseMouseEvents
    \/ CallParseX10MouseEvents
    \/ CallParseSGRMouseEvents

SpecCodec == Init /\ [][NextCodec]_vars

(***************************************************************************)
(* SpecString: MouseEvent.String on constructed events, each field over    *)
(* its enumeration and one value past it.                                  *)
(***************************************************************************)
FormatEvents ==
    [X : {0, 32}, Y : {16},
     Shift : BOOLEAN, Alt : BOOLEAN, Ctrl : BOOLEAN,
     Action : MouseActionPress..(MouseActionMotion + 1),
     Button : MouseButtonNone..(MouseButtonUnknown + 1),
     Type : MouseUnknown..(MouseMotion + 1),
     isSGR : BOOLEAN]

FormatEvent(m) ==
    /\ pc = "input"
    /\ pc' = "done"
    /\ fn' = "String"
    /\ ev' = <<m>>
    /\ str' = String(m)
    /\ UNCHANGED <<buf, args, npieces, err>>

NextString == \E m \in FormatEvents : FormatEvent(m)

SpecString == Init /\ [][NextString]_vars

(***************************************************************************)
(* Properties.                                                             *)
(***************************************************************************)
Done(f) == pc = "done" /\ fn = f

Succeeded(f) == Done(f) /\ err = ""

\* the legacy table as the specification states it, on an (Action, Button) pair
LegacyTable(action, button) ==
    CASE action = MouseActionPress /\ button = MouseButtonLeft -> MouseLeft
      [] action = MouseActionPress /\ button = MouseButtonMiddle -> MouseMiddle
      [] action = MouseActionPress /\ button = MouseButtonRight -> MouseRight
      [] action = MouseActionRelease /\ button = MouseButtonNone -> MouseRelease
      [] action = MouseActionPress /\ button = MouseButtonWheelUp -> MouseWheelUp
      [] action = MouseActionPress /\ button = MouseButtonWheelDown -> MouseWheelDown
      [] action = MouseActionPress /\ button = MouseButtonWheelLeft -> MouseWheelLeft
      [] action = MouseActionPress /\ button = MouseButtonWheelRight -> MouseWheelRight
      [] action = MouseActionPress /\ button = MouseButtonBackward -> MouseBackward
      [] action = MouseActionPress /\ button = MouseButtonForward -> MouseForward
      [] action = MouseActionMotion /\ button = MouseButtonLeft -> MouseLeft
      [] action = MouseActionMotion /\ button = MouseButtonMiddle -> MouseMiddle
      [] action = MouseActionMotion /\ button = MouseButtonRight -> MouseRight
      [] action = MouseActionMotion /\ button = MouseButtonBackward -> MouseBackward
      [] action = MouseActionMotion /\ button = MouseButtonForward -> MouseForward
      [] action = MouseActionMotion
         /\ button \notin {MouseButtonLeft, MouseButtonMiddle, MouseButtonRight,
                           MouseButtonBackward, MouseButtonForward} -> MouseMotion
      [] OTHER -> MouseUnknown

\* C1 (as claimed): every event of a successful parseX10MouseEvents or
\* parseSGRMouseEvents call has Type equal to the legacy table applied to its
\* own (Action, Button).
C1_TypeIsTableOfActionButton ==
    (Succeeded("parseX10MouseEvents") \/ Succeeded("parseSGRMouseEvents"))
        => \A i \in 1..Len(ev) :
              ev[i].Type = LegacyTable(ev[i].Action, ev[i].Button)

\* C1 (amended): every event of a successful parseX10MouseEvents or
\* parseSGRMouseEvents call has Type Release when its Action is Release
\* (whatever its Button: the SGR terminator 'm' keeps the Button), and
\* otherwise Type equal to the legacy table applied to its (Action, Button).
C1_TypeIsTableUnlessReleased ==
    (Succeeded("parseX10MouseEvents") \/ Succeeded("parseSGRMouseEvents"))
        => \A i \in 1..Len(ev) :
              ev[i].Type = IF ev[i].Action = MouseActionRelease
                           THEN MouseRelease
                           ELSE LegacyTable(ev[i].Action, ev[i].Button)

\* C1 witness: an SGR event released by its terminator keeps Button Left and
\* carries Type Release.
C1_Witness ==
    /\ Succeeded("parseSGRMouseEvents")
    /\ Len(ev) = 1
    /\ ev[1].Action = MouseActionRelease
    /\ ev[1].Button = MouseButtonLeft
    /\ ev[1].Type = MouseRelease

\* the test's bound of the X10 positions ("max position")
MaxX10Position == 222

OneX10Encoded == Len(args) = 1 /\ args[1].proto = "x10"

OneSGREncoded == Len(args) = 1 /\ args[1].proto = "sgr"

\* the decoded event is the one encode(b, x, y) stands for
X10RoundTrips(a) ==
    /\ err = ""
    /\ Len(ev) = 1
    /\ ev[1].X = a.x
    /\ ev[1].Y = a.y
    /\ LET c == parseMouseButton((mouseX10ByteOffset + a.b) % ByteModulus, FALSE)
       IN  /\ ev[1].Button = c.Button
           /\ ev[1].Action = c.Action
           /\ ev[1].Shift = c.Shift
           /\ ev[1].Alt = c.Alt
           /\ ev[1].Ctrl = c.Ctrl

\* C8 (as claimed): for every b in 0..255 and x, y in 0..222,
\* parseX10MouseEvents(encode(b, x, y)) succeeds with exactly one event, which
\* has X = x, Y = y and the codec's Button, Action and modifiers.
C8_X10RoundTrip ==
    (Done("parseX10MouseEvents") /\ OneX10Encoded
       /\ args[1].x <= MaxX10Position /\ args[1].y <= MaxX10Position)
        => X10RoundTrips(args[1])

\* the one encoding whose three body bytes are the marker ESC [ M itself
BodyIsMarker(a) ==
    <<(mouseX10ByteOffset + a.b) % ByteModulus,
      (a.x + mouseX10ByteOffset + 1) % ByteModulus,
      (a.y + mouseX10ByteOffset + 1) % ByteModulus>> = mouseX10Seq

\* C8 (amended): the round trip holds for every b in 0..255 and x, y in 0..222
\* except the encoding whose body bytes are themselves ESC [ M (b = 251,
\* x = 58, y = 44), which is split as a second marker and yields no event.
C8_X10RoundTripExceptMarkerBody ==
    (Done("parseX10MouseEvents") /\ OneX10Encoded
       /\ args[1].x <= MaxX10Position /\ args[1].y <= MaxX10Position)
        => IF BodyIsMarker(args[1])
           THEN args[1].b % ByteModulus = 251 /\ args[1].x = 58 /\ args[1].y = 44
                /\ ev = <<>>
           ELSE X10RoundTrips(args[1])

\* C8 witness: the test's "max position" with a wheel button and modifiers.
C8_Witness ==
    /\ Succeeded("parseX10MouseEvents")
    /\ OneX10Encoded
    /\ args[1].b = 89 /\ args[1].x = MaxX10Position /\ args[1].y = 44
    /\ Len(ev) = 1
    /\ ev[1].X = MaxX10Position /\ ev[1].Y = 44
    /\ ev[1].Button = MouseButtonWheelDown /\ ev[1].Alt /\ ev[1].Ctrl

\* the non-empty fragments of an X10 buffer
X10Fragments(b) == SelectSeq(Split(b, mouseX10Seq), LAMBDA v : Len(v) # 0)

\* C9: every 3-byte fragment v accepted by parseX10MouseEvents gives an event
\* with X = v[1] - 33 and Y = v[2] - 33 (0-based indices) on the unsigned byte,
\* so X and Y lie in -33..222; a coordinate c > 222 encoded as (c + 33) mod 256
\* decodes to ((c + 33) mod 256) - 33: 250 gives -6 and 223 gives -33.
C9_X10CoordinatesWrap ==
    Succeeded("parseX10MouseEvents")
        => /\ Len(ev) = Len(X10Fragments(buf))
           /\ \A i \in 1..Len(ev) :
                 LET v == X10Fragments(buf)[i]
                 IN  /\ ev[i].X = v[2] - 33
                     /\ ev[i].Y = v[3] - 33
                     /\ ev[i].X \in -33..222
                     /\ ev[i].Y \in -33..222
           /\ (OneX10Encoded /\ Len(ev) = 1) =>
                 /\ args[1].x > 222 => ev[1].X = ((args[1].x + 33) % 256) - 33
                 /\ args[1].y > 222 => ev[1].Y = ((args[1].y + 33) % 256) - 33
                 /\ args[1].x = 250 => ev[1].X = -6
                 /\ args[1].x = 223 => ev[1].X = -33
                 /\ args[1].y = 250 => ev[1].Y = -6
                 /\ args[1].y = 223 => ev[1].Y = -33

\* C9 witness: the test's overflow position, x = 250 decoded as -6.
C9_Witness ==
    /\ Succeeded("parseX10MouseEvents")
    /\ OneX10Encoded
    /\ args[1].x = 250 /\ args[1].y = 223
    /\ Len(ev) = 1
    /\ ev[1].X = -6 /\ ev[1].Y = -33

\* C10: a well-formed SGR segment with button code b decodes to one event;
\* with terminator 'm' its Action and Type are Release unless the codec's
\* Button for b is a wheel button or the codec's Action is Motion, and then
\* Action, Button and Type are the codec's; with terminator 'M' they are the
\* codec's, so Action is Release only when b has low bits 11 and the motion,
\* wheel and extra-button bits clear.  X and Y are the wire values less one.
C10_SGRTerminator ==
    (Done("parseSGRMouseEvents") /\ OneSGREncoded)
        => LET a == args[1]
               c == parseMouseButton(a.b, TRUE)
               codecKept == /\ ev[1].Action = c.Action
                            /\ ev[1].Button = c.Button
                            /\ ev[1].Type = c.Type
           IN  /\ err = ""
               /\ Len(ev) = 1
               /\ ev[1].X = (a.x + 1) - 1
               /\ ev[1].Y = (a.y + 1) - 1
               /\ IF a.r
                  THEN IF IsWheel(c) \/ c.Action = MouseActionMotion
                       THEN codecKept
                       ELSE /\ ev[1].Action = MouseActionRelease
                            /\ ev[1].Type = MouseRelease
                  ELSE /\ codecKept
                       /\ ev[1].Action = MouseActionRelease
                            <=> /\ a.b % 4 = 3
                                /\ (a.b \div 32) % 2 = 0
                                /\ (a.b \div 64) % 2 = 0
                                /\ (a.b \div 128) % 2 = 0

\* C10 witness: Left released by the terminator 'm'.
C10_Witness ==
    /\ Succeeded("parseSGRMouseEvents")
    /\ OneSGREncoded
    /\ args[1].b = 0 /\ args[1].r
    /\ Len(ev) = 1
    /\ ev[1].Action = MouseActionRelease
    /\ ev[1].Button = MouseButtonLeft
    /\ ev[1].X = args[1].x

\* C2 (as claimed): whenever a decoding function returns an error, the event
\* sequence returned with it is empty.
C2_NoEventsWithError ==
    (pc = "done" /\ err # "") => ev = <<>>

\* C3 (as claimed): parseX10MouseEvents fails on every buffer that has a
\* fragment, other than an empty one before the first marker, whose length is
\* not 3.
C3_X10FailsOnFragmentNot3 ==
    LET frags == Split(buf, mouseX10Seq)
    IN  (/\ Done("parseX10MouseEvents")
         /\ \E i \in 1..Len(frags) :
               /\ ~(i = 1 /\ Len(frags[1]) = 0)
               /\ Len(frags[i]) # 3)
            => err # ""

\* C4 (as claimed): parseX10MouseEvents fails on every buffer whose bytes
\* before the first marker are non-empty, whatever their number.
C4_X10FailsOnPrefix ==
    (Done("parseX10MouseEvents") /\ Len(Split(buf, mouseX10Seq)[1]) # 0)
        => (err # "" /\ ev = <<>>)

\* the whole of v, first to last character, is digits ; digits ; digits (M|m)
WholeMatch(v) ==
    LET m == MatchAt(v, 1)
    IN  m # <<>> /\ Len(m[1]) = Len(v)

\* C5 (as claimed): parseSGRMouseEvents succeeds only if every non-empty
\* fragment is, as a whole, digits ; digits ; digits (M|m).
C5_SGRFragmentsMatchWhole ==
    LET frags == Split(buf, mouseSGRSeq)
    IN  Succeeded("parseSGRMouseEvents")
            => \A i \in 1..Len(frags) : Len(frags[i]) # 0 => WholeMatch(frags[i])

\* C6: parseMouseEvents fails with "empty buffer" on an empty buffer; else
\* returns the result of parseSGRMouseEvents when the buffer contains ESC [ <
\* (also when it contains ESC [ M); else the result of parseX10MouseEvents
\* when it contains ESC [ M; else fails with "not a mouse event", no events.
C6_DispatchPriority ==
    Done("parseMouseEvents")
        => LET res == [ev |-> ev, err |-> err]
           IN  IF buf = <<>>
               THEN err = "empty buffer" /\ ev = <<>>
               ELSE IF Contains(buf, mouseSGRSeq)
               THEN /\ res = parseSGRMouseEvents(buf)
                    /\ err \in {"", "not a SGR mouse event"}
                    /\ \A i \in 1..Len(ev) : ev[i].isSGR
               ELSE IF Contains(buf, mouseX10Seq)
               THEN /\ res = parseX10MouseEvents(buf)
                    /\ err \in {"", "not an X10 mouse event"}
                    /\ \A i \in 1..Len(ev) : ~ev[i].isSGR
               ELSE err = "not a mouse event" /\ ev = <<>>

\* C6 witness: a buffer with both markers that the X10 decoder would accept
\* is given to the SGR decoder, which rejects it.
C6_Witness ==
    /\ Done("parseMouseEvents")
    /\ Contains(buf, mouseSGRSeq)
    /\ Contains(buf, mouseX10Seq)
    /\ err = "not a SGR mouse event"
    /\ parseX10MouseEvents(buf).err = ""
    /\ parseX10MouseEvents(buf).ev # <<>>

\* the segment an encode call produced
Segment(a) ==
    IF a.proto = "x10" THEN encodeX10(a.b, a.x, a.y)
    ELSE encodeSGR(a.b, a.x, a.y, a.r)

\* the buffer is the concatenation of encoded segments of one protocol
BatchOf(proto) ==
    /\ Len(args) >= 1
    /\ npieces = Len(args)
    /\ \A i \in 1..Len(args) : args[i].proto = proto

\* decoding one segment on its own
DecodeAlone(a) ==
    IF a.proto = "x10" THEN parseX10MouseEvents(Segment(a))
    ELSE parseSGRMouseEvents(Segment(a))

\* the event sequences of the first n segments, each decoded on its own,
\* one after the other
RECURSIVE EventsAlone(_, _)
EventsAlone(as, n) ==
    IF n = 0 THEN <<>> ELSE EventsAlone(as, n - 1) \o DecodeAlone(as[n]).ev

WheelType(button) ==
    CASE button = MouseButtonWheelUp -> MouseWheelUp
      [] button = MouseButtonWheelDown -> MouseWheelDown
      [] button = MouseButtonWheelLeft -> MouseWheelLeft
      [] button = MouseButtonWheelRight -> MouseWheelRight

WheelButtons ==
    {MouseButtonWheelUp, MouseButtonWheelDown, MouseButtonWheelLeft,
     MouseButtonWheelRight}

\* C11: every decoded event whose Button is a wheel button has Action Press
\* and the matching wheel Type, for both protocols, every modifier
\* combination, with the motion bit set and with the SGR terminator 'm'.
C11_WheelIsPress ==
    (pc = "done" /\ err = "")
        => \A i \in 1..Len(ev) :
              ev[i].Button \in WheelButtons
                 => /\ ev[i].Action = MouseActionPress
                    /\ ev[i].Type = WheelType(ev[i].Button)

\* C11 witness: an SGR wheel-down code with the motion bit and ctrl, ended by
\* 'm', decoded as a wheel-down press.
C11_Witness ==
    /\ Succeeded("parseSGRMouseEvents")
    /\ OneSGREncoded
    /\ args[1].b = 64 + 32 + 16 + 1 /\ args[1].r
    /\ Len(ev) = 1
    /\ ev[1].Button = MouseButtonWheelDown
    /\ ev[1].Action = MouseActionPress
    /\ ev[1].Type = MouseWheelDown
    /\ ev[1].Ctrl

\* bit 2^k of a two's-complement code e is set (weight = 2^k)
BitIsSet(e, weight) == (e \div weight) % 2 = 1

\* the raw button code of the one encoded event: the X10 byte less 32, the
\* SGR code as it is
RawCode(a) ==
    IF a.proto = "x10"
    THEN ((mouseX10ByteOffset + a.b) % ByteModulus) - mouseX10ByteOffset
    ELSE a.b

\* the codec applied to the button code of the one encoded event, as its
\* decoder applies it
Codec(a) ==
    IF a.proto = "x10"
    THEN parseMouseButton((mouseX10ByteOffset + a.b) % ByteModulus, FALSE)
    ELSE parseMouseButton(a.b, TRUE)

\* the Button the priority rule selects for a raw code
RuleButton(e) ==
    IF BitIsSet(e, 128)
    THEN <<MouseButtonBackward, MouseButtonForward, MouseButton10, MouseButton11>>[(e % 4) + 1]
    ELSE IF BitIsSet(e, 64)
    THEN <<MouseButtonWheelUp, MouseButtonWheelDown, MouseButtonWheelLeft,
           MouseButtonWheelRight>>[(e % 4) + 1]
    ELSE <<MouseButtonLeft, MouseButtonMiddle, MouseButtonRight, MouseButtonNone>>[(e % 4) + 1]

\* the Action the priority rule selects for a raw code
RuleAction(e) ==
    IF BitIsSet(e, 32) /\ RuleButton(e) \notin WheelButtons THEN MouseActionMotion
    ELSE IF ~BitIsSet(e, 128) /\ ~BitIsSet(e, 64) /\ e % 4 = 3 THEN MouseActionRelease
    ELSE MouseActionPress

\* the one encoded event was decoded, by the decoder of its protocol, to one
\* event
OneDecoded ==
    /\ pc = "done"
    /\ err = ""
    /\ Len(args) = 1
    /\ Len(ev) = 1
    /\ fn = IF args[1].proto = "x10" THEN "parseX10MouseEvents"
                                     ELSE "parseSGRMouseEvents"

\* C13: for every raw button code (X10 byte less 32, SGR code as it is) the
\* codec selects Button by the priority extra-button bit, wheel bit, low two
\* bits (3 gives None with Release), Action Press otherwise, and the motion
\* bit turns the Action of a non-wheel event into Motion, also a Release.
\* (The SGR terminator 'm' acts after the codec: the Action is compared under
\* 'M' and for X10.)
C13_CodecPriority ==
    OneDecoded
        => LET e == RawCode(args[1])
           IN  /\ ev[1].Button = RuleButton(e)
               /\ ~args[1].r => ev[1].Action = RuleAction(e)
               /\ Codec(args[1]).Action = RuleAction(e)

\* C13 witness: SGR code 35 (low bits 3 and the motion bit) decoded as Button
\* None with Action Motion.
C13_Witness ==
    /\ OneDecoded
    /\ args[1].proto = "sgr" /\ args[1].b = 35 /\ ~args[1].r
    /\ ev[1].Button = MouseButtonNone
    /\ ev[1].Action = MouseActionMotion

\* the event a protocol's decoder makes of the raw code e (coordinates apart)
DecodeCode(proto, e, r) ==
    IF proto = "x10" THEN parseMouseButton(e + mouseX10ByteOffset, FALSE)
    ELSE SGRRelease(parseMouseButton(e, TRUE), r)

\* the raw code e with its bits 2-4 replaced by those of k (0..7)
WithModifierBits(e, k) == e - (e % 32) + 4 * k + (e % 4)

\* the raw code that has the bits 2-4 of e, low bits low and bits 5-7 high
WithOtherBits(e, low, high) == 32 * high + ((e % 32) - (e % 4)) + low

\* C14: for both protocols the decoded Shift, Alt and Ctrl are bits 2, 3 and
\* 4 of the raw code and nothing else: codes that differ only in bits 2-4
\* decode to the same Button, Action and Type, and codes that agree on bits
\* 2-4 decode to the same flags whatever their other bits and the terminator.
C14_ModifiersAreBits ==
    OneDecoded
        => LET a == args[1]
               e == RawCode(a)
           IN  /\ ev[1].Shift = BitIsSet(e, 4)
               /\ ev[1].Alt = BitIsSet(e, 8)
               /\ ev[1].Ctrl = BitIsSet(e, 16)
               /\ \A k \in 0..7 :
                     LET o == DecodeCode(a.proto, WithModifierBits(e, k), a.r)
                     IN  /\ o.Button = ev[1].Button
                         /\ o.Action = ev[1].Action
                         /\ o.Type = ev[1].Type
               /\ \A low \in 0..3, high \in 0..6, r \in BOOLEAN :
                     LET o == DecodeCode(a.proto, WithOtherBits(e, low, high), r)
                     IN  /\ o.Shift = ev[1].Shift
                         /\ o.Alt = ev[1].Alt
                         /\ o.Ctrl = ev[1].Ctrl

\* C14 witness: an X10 wheel-down byte with alt and ctrl and without shift.
C14_Witness ==
    /\ OneDecoded
    /\ args[1].proto = "x10" /\ args[1].b = 89
    /\ ev[1].Alt /\ ev[1].Ctrl /\ ~ev[1].Shift
    /\ ev[1].Button = MouseButtonWheelDown

\* the buttons of the enumeration other than MouseButtonUnknown
KnownButtons == MouseButtonNone..MouseButton11

\* C15: for every X10 button byte 0..255 (a byte below 32 gives a negative
\* code) and every non-negative SGR code, the decoded Button is one of None,
\* Left, ..., Button11 (never Unknown, never outside the enumeration), the
\* Action is Press, Release or Motion, and Button None comes only with Action
\* Release or Motion.
C15_ButtonAndActionInRange ==
    (pc = "done" /\ err = "")
        => \A i \in 1..Len(ev) :
              /\ ev[i].Button \in KnownButtons
              /\ ev[i].Button # MouseButtonUnknown
              /\ ev[i].Action \in {MouseActionPress, MouseActionRelease,
                                   MouseActionMotion}
              /\ ev[i].Button = MouseButtonNone
                    => ev[i].Action \in {MouseActionRelease, MouseActionMotion}

\* C15 witness: the X10 button byte 0 (code -32) decoded as Backward in
\* motion.
C15_Witness ==
    /\ OneDecoded
    /\ args[1].proto = "x10"
    /\ buf[4] = 0
    /\ RawCode(args[1]) = -32
    /\ ev[1].Button = MouseButtonBackward
    /\ ev[1].Action = MouseActionMotion

\* C16: every event of parseSGRMouseEvents has isSGR true, every event of
\* parseX10MouseEvents has isSGR false, and all events of one parseMouseEvents
\* call carry the flag of the decoder the dispatcher chose.
C16_ProtocolFlag ==
    /\ Done("parseSGRMouseEvents") => \A i \in 1..Len(ev) : ev[i].isSGR
    /\ Done("parseX10MouseEvents") => \A i \in 1..Len(ev) : ~ev[i].isSGR
    /\ Done("parseMouseEvents")
          => /\ \A i, j \in 1..Len(ev) : ev[i].isSGR = ev[j].isSGR
             /\ \A i \in 1..Len(ev) : ev[i].isSGR <=> Contains(buf, mouseSGRSeq)

\* C16 witness: a buffer with both markers decoded by parseMouseEvents to two
\* events, both flagged SGR.
C16_Witness ==
    /\ Succeeded("parseMouseEvents")
    /\ Contains(buf, mouseSGRSeq)
    /\ Contains(buf, mouseX10Seq)
    /\ Len(ev) = 2
    /\ ev[1].isSGR /\ ev[2].isSGR

\* the modifier prefix: "ctrl+", "alt+", "shift+" in that order, each when
\* its flag is true
Prefix(m) ==
    (IF m.Ctrl THEN "ctrl+" ELSE "") \o (IF m.Alt THEN "alt+" ELSE "")
        \o (IF m.Shift THEN "shift+" ELSE "")

\* the label of a value of an enumeration, empty outside it
Label(map, v) == IF v \in DOMAIN map THEN map[v] ELSE ""

\* the body of the text of an event
Body(m) ==
    CASE ~m.isSGR -> Label(mouseEventTypes, m.Type)
      [] m.isSGR /\ m.Button = MouseButtonNone /\ m.Action = MouseActionMotion
            -> "motion"
      [] m.isSGR /\ ~(m.Button = MouseButtonNone /\ m.Action = MouseActionMotion)
            /\ m.Button \in WheelButtons
            -> Label(mouseButtons, m.Button)
      [] OTHER -> Label(mouseButtons, m.Button) \o " " \o Label(mouseActions, m.Action)

\* C12: MouseEvent.String returns, for every event value, the prefix ("ctrl+",
\* "alt+", "shift+" in that order, each when its flag is true) followed by the
\* body: without isSGR the label of Type, empty when Type is outside the
\* enumeration; with isSGR "motion" for Button None in Motion, else the button
\* label alone for a wheel button, else "<button label> <action label>".
C12_StringIsPrefixAndBody ==
    Done("String")
        => LET m == ev[1]
           IN  /\ str = Prefix(m) \o Body(m)
               /\ (~m.isSGR /\ m.Type \notin DOMAIN mouseEventTypes) => str = Prefix(m)
               /\ ~m.isSGR => str = String([m EXCEPT !.X = 7, !.Y = 9,
                                                      !.Action = MouseActionPress,
                                                      !.Button = MouseButtonNone])
               /\ (m.Ctrl /\ m.Shift /\ ~m.Alt /\ m.Button = MouseButtonRight
                     /\ m.Action = MouseActionPress /\ m.Type = MouseRight)
                     => str = IF m.isSGR THEN "ctrl+shift+right press"
                                         ELSE "ctrl+shift+right"

\* C12 witness: the three modifiers on an SGR wheel event, and the same flags
\* are reached with a Type outside the enumeration.
C12_Witness ==
    /\ Done("String")
    /\ ev[1].isSGR /\ ev[1].Ctrl /\ ev[1].Alt /\ ev[1].Shift
    /\ ev[1].Button = MouseButtonWheelLeft
    /\ ev[1].Action = MouseActionRelease
    /\ ev[1].Type = MouseMotion + 1
    /\ str = "ctrl+alt+shift+wheel left"

====
